---- MODULE Spec2Model ----
(***************************************************************************)
(* A model of webpage_to_alai.py: the token lifecycle (AuthManager), the   *)
(* extraction polling loop (extract_webpage_data), the variant negotiation *)
(* decision (handle_slide_websocket), the image upload                     *)
(* (process_images_for_slide), the slide orchestration (assemble_slides,   *)
(* build_presentation, main) and what its requests do to the backend.      *)
(*                                                                         *)
(* Python's None is the string "None"; an exception raised by a function   *)
(* is an outcome record whose kind is "raise".                             *)
(***************************************************************************)
EXTENDS Integers, Sequences, FiniteSets, TLC

VARIABLES
    \* ---- AuthManager (lines 91-171) ----
    auth_mgr,       \* the AuthManager object: access_token, refresh_token,
                    \* token_expiry, email, password
    now,            \* the wall clock, time.time(), in seconds
    auth_ret,       \* how the last get_valid_token call ended
    \* ---- extract_webpage_data (lines 18-88) ----
    ex_pc,              \* "extracting", "returned" or "raised"
    extracted_result,   \* the local of that name: None or the last result
    ex_first_pass,      \* the first result received that met the contract
    ex_requests,        \* calls of app.extract made, counted up to MaxCountedRequests
    \* ---- handle_slide_websocket (lines 320-394) ----
    ws_pc,              \* "running" (inside run_forever) or "closed"
    received_msgs,      \* the list of that name
    ws_ret,             \* how handle_slide_websocket ended
    \* ---- main, build_presentation, assemble_slides (lines 397-479) ----
    pc,                 \* where the run is: "build", "for", "while", "variant",
                        \* "done" or "aborted"
    scraped_content,    \* the keys of the paragraphs mapping, in map order
    paragraphs,         \* the keys still in the paragraphs dict
    section_keys,       \* the list of that name
    current_key,
    current_slide_id,   \* 0 is None
    order_counter,
    attempt,
    slide_images,
    variant_id,         \* what the last negotiation returned
    share_link,         \* what build_presentation returned, or None
    abort_cause,        \* the call whose exception reached main, or None
    rejected,           \* the create-presentation, create-slide and share-link
                        \* calls answered with a non-2xx status
    processed,          \* the sections uploaded and negotiated so far, in order
    neg_count,          \* negotiations made for the current section
    won_at,             \* neg_count when a real variant id came back, or 0
    create_calls,       \* create-slide calls made so far
    created_order,      \* slide_order of the last create-slide call
    held_order,         \* order index of the slide held
    removed_order,      \* order index of the slide removed last, until the
                        \* next create-slide call
    recreated_order,    \* removed_order as it was at the last create-slide call
    uploaded,           \* what process_images_for_slide returned for the section
    err_at2,            \* the negotiation at attempt 2 of the section returned
                        \* "Image Error"
    \* ---- the presentation backend, as the requests of a run change it ----
    backend_slides,     \* the slides of the presentation: id, order index and
                        \* the variants applied
    committed,          \* the slides the run treats as committed, each with the
                        \* variant id its negotiation returned
    removed,            \* the slides remove_slide was called for
    negotiated,         \* the slides negotiated, in order
    failed_requests,    \* pick-variant and delete-slides requests answered with
                        \* a non-2xx status
    \* ---- process_images_for_slide (lines 276-317) ----
    up_pc,              \* "start", "loop", "returned" or "raised"
    image_urls,         \* the argument of that name
    up_idx,             \* the position of the for loop in image_urls
    files_list,         \* the list of that name: the images kept
    up_gets,            \* the positions of the URLs fetched, in order
    up_posts,           \* requests made to the upload endpoint
    up_ret              \* the list returned

authVars == <<auth_mgr, now, auth_ret>>
extractVars == <<ex_pc, extracted_result, ex_first_pass, ex_requests>>
wsVars == <<ws_pc, received_msgs, ws_ret>>
loopVars == <<paragraphs, section_keys, current_key, current_slide_id, order_counter,
              attempt, slide_images, variant_id>>
ghostVars == <<processed, neg_count, won_at, create_calls, created_order, held_order,
               removed_order, recreated_order, uploaded, err_at2>>
runVars == <<pc, scraped_content, share_link, abort_cause, rejected>>
backendVars == <<backend_slides, committed, removed, negotiated, failed_requests>>
uploadVars == <<up_pc, image_urls, up_idx, files_list, up_gets, up_posts, up_ret>>

None == "None"

(***************************************************************************)
(* AuthManager                                                             *)
(***************************************************************************)

\* line 106: a cached token is used only with more than 300 s left
ExpiryMargin == 300
\* lines 137, 164: data.get("expires_in", 3600)
DefaultTTL == 3600
\* the clock of the model stops at MaxClockSteps * 100 seconds
MaxClockSteps == 5

\* "expires_in" is absent from the response body
NoTTL == -1
Tokens == {"t1", "t2"}
RefreshTokens == {"r1"}
\* the TTLs the auth backend reports, beside reporting none
TTLs == {200, 400}
\* seconds a request to the auth backend takes
RequestDelays == {0, 100}
\* seconds that pass between two calls
TickAmounts == {100}

\* What requests.post gives back from an auth endpoint: status 0 stands for
\* the request itself raising (no response), otherwise the HTTP status and,
\* for 200, the decoded body.
AuthResponses ==
    {[status |-> 0, access_token |-> None, refresh_token |-> None, expires_in |-> NoTTL],
     [status |-> 401, access_token |-> None, refresh_token |-> None, expires_in |-> NoTTL]}
    \cup [status : {200}, access_token : Tokens, refresh_token : RefreshTokens,
          expires_in : TTLs \cup {NoTTL}]

\* data.get("expires_in", 3600)
expires_in(data) == IF data.expires_in = NoTTL THEN DefaultTTL ELSE data.expires_in

\* caching the response's tokens with the default TTL whatever it reports
store_session_default_ttl(self, data, t) ==
    [self EXCEPT !.access_token = data.access_token,
                 !.refresh_token = data.refresh_token,
                 !.token_expiry = t + DefaultTTL]

\* lines 161-164 and 134-137: cache the response's tokens; t is int(time.time())
\* read after the response arrived
store_session(self, data, t) ==
    [self EXCEPT !.access_token = data.access_token,
                 !.refresh_token = data.refresh_token,
                 !.token_expiry = t + expires_in(data)]

\* AuthManager.refresh_access_token; t is the time the response arrives.
\* Result: the object after the call, and how the call ended.
refresh_access_token(self, resp, t) ==
    IF self.refresh_token = None
    THEN [self |-> self, kind |-> "raise", value |-> "NoRefreshToken", sent |-> <<>>]
    ELSE IF resp.status = 0
    THEN [self |-> self, kind |-> "raise", value |-> "RequestException",
          sent |-> <<"refresh">>]
    ELSE IF resp.status # 200
    THEN [self |-> [self EXCEPT !.refresh_token = None], kind |-> "raise",
          value |-> "RefreshTokenError", sent |-> <<"refresh">>]
    ELSE [self |-> store_session(self, resp, t), kind |-> "return",
          value |-> resp.access_token, sent |-> <<"refresh">>]

\* password authentication that gives up only when both credentials are absent
password_auth_needs_one(self, resp, t, d, sent) ==
    IF self.email = None /\ self.password = None
    THEN [self |-> self, kind |-> "raise", value |-> "MissingCredential",
          sent |-> sent, time |-> t]
    ELSE IF resp.status = 0
    THEN [self |-> self, kind |-> "raise", value |-> "RequestException",
          sent |-> Append(sent, "password"), time |-> t + d]
    ELSE IF resp.status # 200
    THEN [self |-> self, kind |-> "raise", value |-> "AuthenticationError",
          sent |-> Append(sent, "password"), time |-> t + d]
    ELSE [self |-> store_session(self, resp, t + d), kind |-> "return",
          value |-> resp.access_token,
          sent |-> Append(sent, "password"), time |-> t + d]

\* lines 115-138 of get_valid_token: password authentication. t is the time
\* the password request is sent, d the seconds it takes.
password_auth(self, resp, t, d, sent) ==
    IF self.email = None \/ self.password = None
    THEN [self |-> self, kind |-> "raise", value |-> "MissingCredential",
          sent |-> sent, time |-> t]
    ELSE IF resp.status = 0
    THEN [self |-> self, kind |-> "raise", value |-> "RequestException",
          sent |-> Append(sent, "password"), time |-> t + d]
    ELSE IF resp.status # 200
    THEN [self |-> self, kind |-> "raise", value |-> "AuthenticationError",
          sent |-> Append(sent, "password"), time |-> t + d]
    ELSE [self |-> store_session(self, resp, t + d), kind |-> "return",
          value |-> resp.access_token,
          sent |-> Append(sent, "password"), time |-> t + d]

\* lines 106: the cached token is present and has more than 300 s left
cached_token_usable(self, current_time) ==
    self.access_token # None /\ self.token_expiry > current_time + ExpiryMargin

\* AuthManager.get_valid_token called at time t0. rresp/rd: the refresh
\* endpoint's answer and the seconds it takes; presp/pd: the same for the
\* password endpoint. Result: the object after the call, the outcome, the
\* requests sent and the time the call ends.
get_valid_token(self, t0, rresp, rd, presp, pd) ==
    IF cached_token_usable(self, t0)
    THEN [self |-> self, kind |-> "return", value |-> self.access_token,
          sent |-> <<>>, time |-> t0]
    ELSE IF self.refresh_token # None
    THEN LET r == refresh_access_token(self, rresp, t0 + rd) IN
         IF r.kind = "return"
         THEN [self |-> r.self, kind |-> "return", value |-> r.value,
               sent |-> r.sent, time |-> t0 + rd]
         ELSE password_auth(r.self, presp, t0 + rd, pd, r.sent)
    ELSE password_auth(self, presp, t0, pd, <<>>)

\* AuthManager.__init__ (lines 96-102); the environment may or may not hold
\* ALAI_EMAIL and ALAI_PASSWORD
AuthManagerInit ==
    [access_token : {None}, refresh_token : {None}, token_expiry : {0},
     email : {None, "e"}, password : {None, "p"}]

NoAuthRet == [kind |-> "none", value |-> None, sent |-> <<>>, remaining |-> 0,
              cached |-> FALSE, answers |-> <<>>, at |-> 0]

\* One call of get_valid_token, with every answer the auth backend can give.
\* auth_ret records how the call ended, the requests it sent, the answer
\* each of them got and the time the call ended at.
GetValidToken ==
    \E rresp \in AuthResponses, presp \in AuthResponses,
       rd \in RequestDelays, pd \in RequestDelays :
        LET r == get_valid_token(auth_mgr, now, rresp, rd, presp, pd) IN
        /\ r.time <= MaxClockSteps * 100
        /\ auth_mgr' = r.self
        /\ now' = r.time
        /\ auth_ret' = [kind |-> r.kind, value |-> r.value, sent |-> r.sent,
                        remaining |-> r.self.token_expiry - r.time,
                        cached |-> cached_token_usable(auth_mgr, now),
                        answers |-> [i \in 1..Len(r.sent) |->
                                       IF r.sent[i] = "refresh" THEN rresp
                                       ELSE presp],
                        at |-> r.time]

\* Time passes between two calls.
Tick ==
    \E d \in TickAmounts :
        /\ now + d <= MaxClockSteps * 100
        /\ now' = now + d
        /\ UNCHANGED <<auth_mgr, auth_ret>>

(***************************************************************************)
(* extract_webpage_data                                                    *)
(***************************************************************************)

\* the section headings the extraction service may report
NumHeadings == 3
HeadingNames == <<"Introduction", "History", "Facts", "Usage", "Notes", "Links">>
Headings == {HeadingNames[i] : i \in 1..NumHeadings}

\* line 39: len(paragraphs) > 2
MinParagraphs == 2
\* ex_requests counts the calls of app.extract and stays at this number once
\* it has reached it; the loop itself has no counter and no limit
MaxCountedRequests == 3
counted(n) == IF n < MaxCountedRequests THEN n + 1 ELSE n

TopKeys == {"title", "images", "paragraphs"}
Titles == {"", "X"}

\* extracted_result["data"]: keys are the top-level keys present; title is
\* the title string, paragraphs and images the key sets of the two mappings
\* (each meaningful only when its key is present).
ExtractedData ==
    {d \in [keys : SUBSET TopKeys, title : Titles \cup {None},
            paragraphs : SUBSET Headings, images : SUBSET Headings] :
        /\ ("title" \in d.keys) = (d.title # None)
        /\ "paragraphs" \notin d.keys => d.paragraphs = {}
        /\ "images" \notin d.keys => d.images = {}}

\* The local extracted_result is <<>> while it is None, and <<d>> once
\* app.extract has answered with a result whose "data" is d.
NoResult == <<>>

\* the loop condition accepting a result with 2 paragraph entries
extraction_accepted_with_two(result) ==
    /\ result # NoResult
    /\ "title" \in result[1].keys
    /\ "images" \in result[1].keys
    /\ "paragraphs" \in result[1].keys
    /\ result[1].title # ""
    /\ Cardinality(result[1].paragraphs) >= MinParagraphs

\* lines 33-40: the parenthesised condition of the while loop
extraction_accepted(result) ==
    /\ result # NoResult
    /\ "title" \in result[1].keys
    /\ "images" \in result[1].keys
    /\ "paragraphs" \in result[1].keys
    /\ result[1].title # ""
    /\ Cardinality(result[1].paragraphs) > MinParagraphs

\* lines 41-86: one pass of the loop body, app.extract answering with data
ExtractAttempt ==
    /\ ex_pc = "extracting"
    /\ ~extraction_accepted(extracted_result)
    /\ \E d \in ExtractedData :
        /\ extracted_result' = <<d>>
        /\ ex_first_pass' =
              IF /\ ex_first_pass = NoResult
                 /\ TopKeys \subseteq d.keys
                 /\ d.title # ""
                 /\ Cardinality(d.paragraphs) >= 3
              THEN <<d>> ELSE ex_first_pass
    /\ ex_requests' = counted(ex_requests)
    /\ UNCHANGED ex_pc

\* lines 42-86: app.extract raises, or its result holds no "data"
ExtractRaises ==
    /\ ex_pc = "extracting"
    /\ ~extraction_accepted(extracted_result)
    /\ ex_pc' = "raised"
    /\ ex_requests' = counted(ex_requests)
    /\ UNCHANGED <<extracted_result, ex_first_pass>>

\* line 88: the loop condition fails, the data is returned
ExtractReturn ==
    /\ ex_pc = "extracting"
    /\ extraction_accepted(extracted_result)
    /\ ex_pc' = "returned"
    /\ UNCHANGED <<extracted_result, ex_first_pass, ex_requests>>

(***************************************************************************)
(* handle_slide_websocket                                                  *)
(***************************************************************************)

\* the most messages one connection delivers in the model
MaxMessages == 3

VariantIds == {"v1", "v2"}

\* An inbound message: phrase tells whether its text contains "Input should
\* be 'image/jpeg', 'image/png', 'image/gif' or 'image/webp'"; json whether
\* json.loads can decode it; id the value of its "id" field (None when the
\* decoded object has none).
Messages ==
    {m \in [phrase : BOOLEAN, json : BOOLEAN, id : VariantIds \cup {None}] :
        ~m.json => m.id = None}

MessageSeqs == UNION {[1..n -> Messages] : n \in 0..MaxMessages}

\* lines 392-394: json.loads(received_msgs[1]).get("id")
variant_info_id(msg) ==
    IF msg.json
    THEN [kind |-> "return", value |-> msg.id]
    ELSE [kind |-> "raise", value |-> "JSONDecodeError"]

\* lines 385-390, reading received_msgs[-1]
insufficient_messages(msgs) ==
    IF Len(msgs) = 0
    THEN [kind |-> "raise", value |-> "IndexError"]
    ELSE IF msgs[Len(msgs)].phrase
    THEN [kind |-> "return", value |-> "Image Error"]
    ELSE [kind |-> "return", value |-> "False"]

\* the decision reading the last message where the code reads the second
handle_slide_websocket_last(msgs) ==
    IF Len(msgs) < 2
    THEN insufficient_messages(msgs)
    ELSE variant_info_id(msgs[Len(msgs)])

\* lines 385-394: what handle_slide_websocket does once run_forever is over
handle_slide_websocket(msgs) ==
    IF Len(msgs) < 2
    THEN insufficient_messages(msgs)
    ELSE variant_info_id(msgs[2])

NoWsRet == [kind |-> "none", value |-> None]

\* lines 338-339: ws_on_message
ws_on_message ==
    /\ ws_pc = "running"
    /\ Len(received_msgs) < MaxMessages
    /\ \E msg \in Messages : received_msgs' = Append(received_msgs, msg)
    /\ UNCHANGED <<ws_pc, ws_ret>>

\* lines 383-394: the connection closes, run_forever returns and the
\* function decides
ws_closed ==
    /\ ws_pc = "running"
    /\ ws_pc' = "closed"
    /\ ws_ret' = handle_slide_websocket(received_msgs)
    /\ UNCHANGED received_msgs

(***************************************************************************)
(* PresentationClient, assemble_slides, build_presentation, main           *)
(***************************************************************************)

\* line 420: while attempt < 4
MaxAttempts == 4

\* no order index (an order index n is recorded as <<n>>)
NoOrder == <<>>

\* HTTP statuses the presentation backend answers with
Statuses == {200, 201, 500}
Is2xx(status) == status >= 200 /\ status < 300

\* The auth backend's answers during a run: a failure, a session of the
\* default lifetime, which the later calls are served from the cache, and a
\* session too short for the cache, after which every call asks again and
\* may fail. The clock stands still during a run.
RunAuthResponses ==
    {r \in AuthResponses :
        \/ r.status # 200
        \/ r.status = 200 /\ r.access_token = "t1" /\ r.expires_in \in {NoTTL, 200}}

\* auth_manager.get_valid_token() as the run calls it: every way it can end
run_token(self, t) ==
    {get_valid_token(self, t, rresp, 0, presp, 0) :
        rresp \in RunAuthResponses, presp \in RunAuthResponses}

\* every way handle_slide_websocket can end
NegotiationOutcomes == {handle_slide_websocket(msgs) : msgs \in MessageSeqs}

\* what process_images_for_slide returns: the handles the backend reports
UploadedLists == {<<>>, <<"h1">>}

\* scraped_content["paragraphs"]: every ordered mapping over the headings
\* with at least one entry
IsInjective(seq) ==
    \A i, j \in 1..Len(seq) : seq[i] = seq[j] => i = j
ScrapedMaps ==
    {q \in UNION {[1..n -> Headings] : n \in 1..NumHeadings} : IsInjective(q)}

Range(seq) == {seq[i] : i \in 1..Len(seq)}

\* list.remove(x): drop the first occurrence of x
RECURSIVE list_remove(_, _)
list_remove(seq, x) ==
    IF seq = <<>> THEN <<>>
    ELSE IF Head(seq) = x THEN Tail(seq)
    ELSE <<Head(seq)>> \o list_remove(Tail(seq), x)

\* the section choice without the preference for "Introduction"
choose_first_key(pars, keys) == keys[1]

\* line 411: the section key chosen for this pass of the for loop
choose_section(pars, keys) ==
    IF "Introduction" \in pars THEN "Introduction" ELSE keys[1]

\* the attempt loop with its cap off by one
loop_continues_late(att) == att <= MaxAttempts

\* line 420: while attempt < 4
loop_continues(att) == att < MaxAttempts

\* line 428: if variant_id and variant_id != "Image Error"
is_real_variant(v) == v \notin {"False", None, ""} /\ v # "Image Error"

\* the image list dropped one attempt early
drops_images_early(v, att) == v = "Image Error" /\ att = 1

\* line 432: if variant_id == "Image Error" and attempt == 2
drops_images(v, att) == v = "Image Error" /\ att = 2

\* a removal that does not give the order index back
order_kept_after_remove(n) == n

\* lines 436, 422: the order counter after a removal and the slide_order of
\* the next creation
order_after_remove(n) == n - 1
order_for_create(n) == n + 1

\* the run ends in main's except clause (lines 478-479)
Abort(cause) ==
    /\ pc' = "aborted"
    /\ abort_cause' = cause

\* lines 445-450 and 401-407: build_presentation creates the presentation,
\* assemble_slides sets up its locals; tk is how get_valid_token ends, status
\* the status of the backend's response
create_presentation(tk, status) ==
    /\ pc = "build"
    /\  /\ auth_mgr' = tk.self
        /\ IF tk.kind = "raise"
           THEN /\ Abort("get_valid_token")
                /\ UNCHANGED <<rejected, loopVars>>
           ELSE IF status # 200
           THEN /\ Abort("create_presentation")
                /\ rejected' = IF Is2xx(status) THEN rejected
                               ELSE rejected \cup {"create-presentation"}
                /\ UNCHANGED loopVars
           ELSE /\ pc' = "for"
                /\ paragraphs' = Range(scraped_content)
                /\ section_keys' = scraped_content
                /\ current_slide_id' = 1
                /\ order_counter' = 0
                /\ UNCHANGED <<abort_cause, rejected, current_key, attempt,
                               slide_images, variant_id>>
    /\ UNCHANGED <<scraped_content, share_link, ghostVars, now>>

CreatePresentation ==
    \E tk \in run_token(auth_mgr, now), status \in Statuses :
        create_presentation(tk, status)

\* lines 409-419: one pass of the for loop up to the attempt loop
SelectSection ==
    /\ pc = "for"
    /\ section_keys # <<>>
    /\ \E tk \in run_token(auth_mgr, now),
          upload \in UploadedLists \cup {<<"raise">>} :
        /\ auth_mgr' = tk.self
        /\ current_key' = choose_section(paragraphs, section_keys)
        /\ IF tk.kind = "raise"
           THEN /\ Abort("get_valid_token")
                /\ UNCHANGED <<paragraphs, section_keys, attempt, slide_images,
                               processed, neg_count, won_at, uploaded, err_at2>>
           ELSE IF upload = <<"raise">>
           THEN /\ Abort("process_images_for_slide")
                /\ UNCHANGED <<paragraphs, section_keys, attempt, slide_images,
                               processed, neg_count, won_at, uploaded, err_at2>>
           ELSE /\ pc' = "while"
                /\ slide_images' = upload
                /\ uploaded' = upload
                /\ err_at2' = FALSE
                /\ section_keys' = list_remove(section_keys, current_key')
                /\ paragraphs' = paragraphs \ {current_key'}
                /\ attempt' = 0
                /\ processed' = Append(processed, current_key')
                /\ neg_count' = 0
                /\ won_at' = 0
                /\ UNCHANGED abort_cause
    /\ UNCHANGED <<scraped_content, share_link, rejected, now, current_slide_id,
                   order_counter, variant_id, create_calls, created_order, held_order,
                   removed_order, recreated_order>>

\* lines 420-423: no slide is held, create one at the next order index
create_slide(tk, status) ==
    /\ pc = "while"
    /\ loop_continues(attempt)
    /\ current_slide_id = 0
    /\  LET order == order_for_create(order_counter) IN
        /\ auth_mgr' = tk.self
        /\ order_counter' = order
        /\ IF tk.kind = "raise"
           THEN /\ Abort("get_valid_token")
                /\ UNCHANGED <<rejected, current_slide_id, create_calls, created_order,
                               held_order, removed_order, recreated_order>>
           ELSE /\ create_calls' = create_calls + 1
                /\ created_order' = <<order>>
                /\ recreated_order' = removed_order
                /\ removed_order' = NoOrder
                /\ IF status # 200
                   THEN /\ Abort("create_slide")
                        /\ rejected' = IF Is2xx(status) THEN rejected
                                       ELSE rejected \cup {"create-slide"}
                        /\ UNCHANGED <<current_slide_id, held_order>>
                   ELSE /\ current_slide_id' = create_calls + 2
                        /\ held_order' = order
                        /\ UNCHANGED <<pc, abort_cause, rejected>>
    /\ UNCHANGED <<scraped_content, share_link, now, paragraphs, section_keys,
                   current_key, attempt, slide_images, variant_id, processed,
                   neg_count, won_at, uploaded, err_at2>>

CreateSlide ==
    \E tk \in run_token(auth_mgr, now), status \in Statuses :
        create_slide(tk, status)

\* lines 424-427: negotiate a variant for the slide held
Negotiate ==
    /\ pc = "while"
    /\ loop_continues(attempt)
    /\ current_slide_id # 0
    /\ \E tk \in run_token(auth_mgr, now), ret \in NegotiationOutcomes :
        /\ auth_mgr' = tk.self
        /\ IF tk.kind = "raise"
           THEN /\ Abort("get_valid_token")
                /\ UNCHANGED <<variant_id, neg_count, won_at, err_at2>>
           ELSE /\ neg_count' = neg_count + 1
                /\ IF ret.kind = "raise"
                   THEN /\ Abort(ret.value)
                        /\ UNCHANGED <<variant_id, won_at, err_at2>>
                   ELSE /\ pc' = "variant"
                        /\ variant_id' = ret.value
                        /\ err_at2' = IF attempt = 2 THEN ret.value = "Image Error"
                                      ELSE err_at2
                        /\ won_at' = IF ret.value \in VariantIds
                                     THEN neg_count + 1 ELSE won_at
                        /\ UNCHANGED abort_cause
    /\ UNCHANGED <<scraped_content, share_link, rejected, now, paragraphs, section_keys,
                   current_key, current_slide_id, order_counter, attempt, slide_images,
                   processed, create_calls, created_order, held_order, removed_order,
                   recreated_order, uploaded>>

\* lines 428-431: a real variant id came back: pick it and leave the loop
\* (the status of the pick-variant response decides only what is printed)
pick_variant(tk, status) ==
    /\ pc = "variant"
    /\ is_real_variant(variant_id)
    /\  /\ auth_mgr' = tk.self
        /\ IF tk.kind = "raise"
           THEN /\ Abort("get_valid_token")
                /\ UNCHANGED <<rejected, current_slide_id>>
           ELSE /\ pc' = "for"
                /\ current_slide_id' = 0
                /\ UNCHANGED <<abort_cause, rejected>>
    /\ UNCHANGED <<scraped_content, share_link, now, paragraphs, section_keys,
                   current_key, order_counter, attempt, slide_images, variant_id,
                   ghostVars>>

PickVariant ==
    \E tk \in run_token(auth_mgr, now), status \in Statuses :
        pick_variant(tk, status)

\* lines 432-438: no real variant id: remove the slide and go round again
\* (the status of the delete-slides response decides only what is printed)
remove_slide(tk, status) ==
    /\ pc = "variant"
    /\ ~is_real_variant(variant_id)
    /\  /\ auth_mgr' = tk.self
        /\ slide_images' = IF drops_images(variant_id, attempt) THEN <<>> ELSE slide_images
        /\ IF tk.kind = "raise"
           THEN /\ Abort("get_valid_token")
                /\ UNCHANGED <<rejected, current_slide_id, order_counter, attempt,
                               removed_order>>
           ELSE /\ pc' = "while"
                /\ UNCHANGED rejected
                /\ order_counter' = order_after_remove(order_counter)
                /\ attempt' = attempt + 1
                /\ current_slide_id' = 0
                /\ removed_order' = <<held_order>>
                /\ UNCHANGED abort_cause
    /\ UNCHANGED <<scraped_content, share_link, now, paragraphs, section_keys,
                   current_key, variant_id, processed, neg_count, won_at, create_calls,
                   created_order, held_order, recreated_order, uploaded, err_at2>>

RemoveSlide ==
    \E tk \in run_token(auth_mgr, now), status \in Statuses :
        remove_slide(tk, status)

\* line 420: the attempt cap is reached, the section is given up
AttemptsExhausted ==
    /\ pc = "while"
    /\ ~loop_continues(attempt)
    /\ pc' = "for"
    /\ UNCHANGED <<authVars, scraped_content, share_link, abort_cause, rejected,
                   loopVars, ghostVars>>

\* the share URL for a response body
share_url(body) == <<"https://app.getalai.com/view/", body>>

\* lines 451-452 and 261-273: the for loop is over, build_presentation asks
\* for the share link and returns the URL
GenerateShareLink ==
    /\ pc = "for"
    /\ section_keys = <<>>
    /\ \E tk \in run_token(auth_mgr, now), status \in Statuses :
        /\ auth_mgr' = tk.self
        /\ IF tk.kind = "raise"
           THEN /\ Abort("get_valid_token")
                /\ UNCHANGED <<rejected, share_link>>
           ELSE /\ pc' = "done"
                /\ rejected' = IF Is2xx(status) THEN rejected
                               ELSE rejected \cup {"share-link"}
                /\ share_link' = share_url(IF status = 200 THEN "abc123" ELSE "error")
                /\ UNCHANGED abort_cause
    /\ UNCHANGED <<scraped_content, now, loopVars, ghostVars>>

(***************************************************************************)
(* The presentation backend                                                *)
(*                                                                         *)
(* The requests of a run together with what they do to the presentation:   *)
(* a request answered with a 2xx status took effect on the backend, any    *)
(* other request did not.                                                  *)
(***************************************************************************)

\* the pick-variant and delete-slides requests of one run that the backend
\* of the model rejects, at most
MaxFailedRequests == 1

\* the statuses the backend may answer such a request with, and the count
\* of rejections after it answered
answers_left(n) == {st \in Statuses : Is2xx(st) \/ n < MaxFailedRequests}
failures_after(n, tk, status) ==
    IF tk.kind = "return" /\ ~Is2xx(status) THEN n + 1 ELSE n

\* the slide of a fresh presentation: presentation_data["slides"][0]
FirstSlide == [id |-> 1, order |-> 0, variants |-> <<>>]

\* get_valid_token as the first call of a run ends when the auth backend
\* issues sessions of the default lifetime only: the later calls of the run
\* are then served from the cache
first_token(self, t) ==
    {tk \in run_token(self, t) :
        tk.kind = "return" => tk.self.token_expiry = t + DefaultTTL}

\* create-new-presentation (lines 182-203)
BackendCreatePresentation ==
    /\ \E tk \in first_token(auth_mgr, now), status \in Statuses :
        /\ create_presentation(tk, status)
        /\ backend_slides' =
              IF tk.kind = "return" /\ Is2xx(status) THEN {FirstSlide}
              ELSE backend_slides
    /\ UNCHANGED <<committed, removed, negotiated, failed_requests>>

\* create-new-slide (lines 223-244): the slide is stored at the slide_order
\* of the request
BackendCreateSlide ==
    /\ \E tk \in run_token(auth_mgr, now), status \in Statuses :
        /\ create_slide(tk, status)
        /\ backend_slides' =
              IF tk.kind = "return" /\ Is2xx(status)
              THEN backend_slides \cup {[id |-> create_calls' + 1,
                                         order |-> order_counter',
                                         variants |-> <<>>]}
              ELSE backend_slides
    /\ UNCHANGED <<committed, removed, negotiated, failed_requests>>

\* the negotiation over the websocket (lines 320-394) changes no slide
BackendNegotiate ==
    /\ Negotiate
    /\ negotiated' = IF neg_count' # neg_count
                     THEN Append(negotiated, current_slide_id) ELSE negotiated
    /\ UNCHANGED <<backend_slides, committed, removed, failed_requests>>

\* pick-slide-variant (lines 205-221): the variant is applied to the slide;
\* the run goes on as if it were, whatever the status (lines 429-431)
BackendPickVariant ==
    /\ \E tk \in run_token(auth_mgr, now), status \in answers_left(failed_requests) :
        /\ pick_variant(tk, status)
        /\ failed_requests' = failures_after(failed_requests, tk, status)
        /\ backend_slides' =
              IF tk.kind = "return" /\ Is2xx(status)
              THEN {IF s.id = current_slide_id
                    THEN [s EXCEPT !.variants = Append(@, variant_id)] ELSE s :
                    s \in backend_slides}
              ELSE backend_slides
        /\ committed' =
              IF tk.kind = "return"
              THEN committed \cup {[id |-> current_slide_id, variant |-> variant_id]}
              ELSE committed
    /\ UNCHANGED <<removed, negotiated>>

\* delete-slides (lines 246-259): the slide is deleted; the run goes on as
\* if it were, whatever the status (lines 435-438)
BackendRemoveSlide ==
    /\ \E tk \in run_token(auth_mgr, now), status \in answers_left(failed_requests) :
        /\ remove_slide(tk, status)
        /\ failed_requests' = failures_after(failed_requests, tk, status)
        /\ backend_slides' =
              IF tk.kind = "return" /\ Is2xx(status)
              THEN {s \in backend_slides : s.id # current_slide_id}
              ELSE backend_slides
        /\ removed' =
              IF tk.kind = "return" THEN removed \cup {current_slide_id} ELSE removed
    /\ UNCHANGED <<committed, negotiated>>

(***************************************************************************)
(* process_images_for_slide                                                *)
(***************************************************************************)

\* the longest URL list of the model
MaxUrls == 2

\* A Content-Type header value is the sequence of its "/"-separated parts;
\* <<>> is a response without the header.
ContentTypes ==
    {<<>>, <<"image", "png">>, <<"IMAGE", "PNG">>, <<"image", "svg+xml">>,
     <<"text", "html">>}

\* str.lower() on the parts that occur
lower(part) ==
    CASE part = "IMAGE" -> "image"
      [] part = "PNG" -> "png"
      [] OTHER -> part

\* An entry of image_urls with what fetching it gives: http tells whether
\* the string starts with "http"; status is the status of the GET (0: the
\* request raises); ctype the Content-Type header of the response.
ImageUrls ==
    {u \in [http : BOOLEAN, status : {0, 200, 404}, ctype : ContentTypes] :
        /\ ~u.http => u.status = 404
        /\ u.status # 200 => u.ctype = <<>>}

ImageUrlLists == UNION {[1..n -> ImageUrls] : n \in 0..MaxUrls}

\* line 306: img_response.headers.get("Content-Type", "image/jpeg").lower()
content_type(u) ==
    LET header == IF u.ctype = <<>> THEN <<"image", "jpeg">> ELSE u.ctype IN
    [i \in 1..Len(header) |-> lower(header[i])]

\* line 307: content_type.split("/")[-1]
extension(ctype) == ctype[Len(ctype)]

\* an extension test that lets SVG through
accepted_extension_or_svg(ext) == ext \in {"jpeg", "png", "gif", "webp", "svg+xml"}

\* line 308: if extension in ["jpeg", "png", "gif", "webp"]
accepted_extension(ext) == ext \in {"jpeg", "png", "gif", "webp"}

\* The upload endpoint's answer: whether its body decodes as JSON and
\* whether the decoded object has an "images" field.
UploadAnswers == {<<"undecodable">>, <<"no images field">>, <<"images">>}

\* lines 280-290: an empty list is answered at once
StartUpload ==
    /\ up_pc = "start"
    /\ IF image_urls = <<>>
       THEN up_pc' = "returned" /\ up_ret' = <<>>
       ELSE up_pc' = "loop" /\ UNCHANGED up_ret
    /\ UNCHANGED <<image_urls, up_idx, files_list, up_gets, up_posts>>

\* lines 292-309: one pass of the for loop
FetchImage ==
    /\ up_pc = "loop"
    /\ up_idx <= Len(image_urls)
    /\ LET u == image_urls[up_idx] IN
       IF ~u.http
       THEN /\ up_idx' = up_idx + 1
            /\ UNCHANGED <<up_pc, files_list, up_gets>>
       ELSE /\ up_gets' = Append(up_gets, up_idx)
            /\ IF u.status = 0
               THEN /\ up_pc' = "raised"
                    /\ UNCHANGED <<up_idx, files_list>>
               ELSE /\ up_idx' = up_idx + 1
                    /\ files_list' =
                         IF u.status = 200
                            /\ accepted_extension(extension(content_type(u)))
                         THEN Append(files_list,
                                     [idx |-> up_idx - 1,
                                      extension |-> extension(content_type(u))])
                         ELSE files_list
                    /\ UNCHANGED up_pc
    /\ UNCHANGED <<image_urls, up_posts, up_ret>>

\* lines 311-317: the loop is over: upload what was kept
UploadFiles ==
    /\ up_pc = "loop"
    /\ up_idx > Len(image_urls)
    /\ IF files_list = <<>>
       THEN up_pc' = "returned" /\ up_ret' = <<>> /\ UNCHANGED up_posts
       ELSE \E answer \in UploadAnswers :
            /\ up_posts' = up_posts + 1
            /\ IF answer = <<"undecodable">>
               THEN up_pc' = "raised" /\ UNCHANGED up_ret
               ELSE /\ up_pc' = "returned"
                    /\ up_ret' = IF answer = <<"images">> THEN <<"h1">> ELSE <<>>
    /\ UNCHANGED <<image_urls, up_idx, files_list, up_gets>>

vars == <<auth_mgr, now, auth_ret, ex_pc, extracted_result, ex_first_pass, ex_requests,
          ws_pc, received_msgs, ws_ret, pc, scraped_content, paragraphs, section_keys,
          current_key, current_slide_id, order_counter, attempt, slide_images,
          variant_id, share_link, abort_cause, rejected, processed, neg_count, won_at,
          create_calls, created_order, held_order, removed_order, recreated_order,
          uploaded, err_at2, backend_slides, committed, removed, negotiated,
          failed_requests,
          up_pc, image_urls, up_idx, files_list, up_gets, up_posts, up_ret>>

(***************************************************************************)
(* The specifications                                                      *)
(***************************************************************************)

\* AuthManager alone: get_valid_token called again and again as time passes
InitAuth ==
    /\ auth_mgr \in AuthManagerInit
    /\ now = 0
    /\ auth_ret = NoAuthRet
    /\ ex_pc = "extracting"
    /\ extracted_result = NoResult
    /\ ex_first_pass = NoResult
    /\ ex_requests = 0
    /\ ws_pc = "running"
    /\ received_msgs = <<>>
    /\ ws_ret = NoWsRet
    /\ pc = "build"
    /\ scraped_content = <<>>
    /\ paragraphs = {}
    /\ section_keys = <<>>
    /\ current_key = None
    /\ current_slide_id = 0
    /\ order_counter = 0
    /\ attempt = 0
    /\ slide_images = <<>>
    /\ variant_id = None
    /\ share_link = None
    /\ abort_cause = None
    /\ rejected = {}
    /\ processed = <<>>
    /\ neg_count = 0
    /\ won_at = 0
    /\ create_calls = 0
    /\ created_order = NoOrder
    /\ held_order = 0
    /\ removed_order = NoOrder
    /\ recreated_order = NoOrder
    /\ uploaded = <<>>
    /\ err_at2 = FALSE
    /\ backend_slides = {}
    /\ committed = {}
    /\ removed = {}
    /\ negotiated = <<>>
    /\ failed_requests = 0
    /\ up_pc = "start"
    /\ image_urls = <<>>
    /\ up_idx = 1
    /\ files_list = <<>>
    /\ up_gets = <<>>
    /\ up_posts = 0
    /\ up_ret = <<>>

AuthNext ==
    \/ GetValidToken /\ UNCHANGED <<extractVars, wsVars, runVars, loopVars, ghostVars, backendVars, uploadVars>>
    \/ Tick /\ UNCHANGED <<extractVars, wsVars, runVars, loopVars, ghostVars, backendVars, uploadVars>>

SpecAuth == InitAuth /\ [][AuthNext]_vars

\* extract_webpage_data alone
InitExtract ==
    /\ auth_mgr = [access_token |-> None, refresh_token |-> None, token_expiry |-> 0,
                   email |-> "e", password |-> "p"]
    /\ now = 0
    /\ auth_ret = NoAuthRet
    /\ ex_pc = "extracting"
    /\ extracted_result = NoResult
    /\ ex_first_pass = NoResult
    /\ ex_requests = 0
    /\ ws_pc = "running"
    /\ received_msgs = <<>>
    /\ ws_ret = NoWsRet
    /\ pc = "build"
    /\ scraped_content = <<>>
    /\ paragraphs = {}
    /\ section_keys = <<>>
    /\ current_key = None
    /\ current_slide_id = 0
    /\ order_counter = 0
    /\ attempt = 0
    /\ slide_images = <<>>
    /\ variant_id = None
    /\ share_link = None
    /\ abort_cause = None
    /\ rejected = {}
    /\ processed = <<>>
    /\ neg_count = 0
    /\ won_at = 0
    /\ create_calls = 0
    /\ created_order = NoOrder
    /\ held_order = 0
    /\ removed_order = NoOrder
    /\ recreated_order = NoOrder
    /\ uploaded = <<>>
    /\ err_at2 = FALSE
    /\ backend_slides = {}
    /\ committed = {}
    /\ removed = {}
    /\ negotiated = <<>>
    /\ failed_requests = 0
    /\ up_pc = "start"
    /\ image_urls = <<>>
    /\ up_idx = 1
    /\ files_list = <<>>
    /\ up_gets = <<>>
    /\ up_posts = 0
    /\ up_ret = <<>>

ExtractNext ==
    \/ ExtractAttempt /\ UNCHANGED <<authVars, wsVars, runVars, loopVars, ghostVars, backendVars, uploadVars>>
    \/ ExtractRaises /\ UNCHANGED <<authVars, wsVars, runVars, loopVars, ghostVars, backendVars, uploadVars>>
    \/ ExtractReturn /\ UNCHANGED <<authVars, wsVars, runVars, loopVars, ghostVars, backendVars, uploadVars>>

SpecExtract == InitExtract /\ [][ExtractNext]_vars

\* The function runs on: once the loop condition fails, line 88 is executed.
SpecExtractFair ==
    /\ InitExtract
    /\ [][ExtractNext]_vars
    /\ WF_vars(ExtractReturn /\ UNCHANGED <<authVars, wsVars, runVars, loopVars,
                                            ghostVars, backendVars, uploadVars>>)

\* handle_slide_websocket alone: one connection
InitWs ==
    /\ auth_mgr = [access_token |-> None, refresh_token |-> None, token_expiry |-> 0,
                   email |-> "e", password |-> "p"]
    /\ now = 0
    /\ auth_ret = NoAuthRet
    /\ ex_pc = "extracting"
    /\ extracted_result = NoResult
    /\ ex_first_pass = NoResult
    /\ ex_requests = 0
    /\ ws_pc = "running"
    /\ received_msgs = <<>>
    /\ ws_ret = NoWsRet
    /\ pc = "build"
    /\ scraped_content = <<>>
    /\ paragraphs = {}
    /\ section_keys = <<>>
    /\ current_key = None
    /\ current_slide_id = 0
    /\ order_counter = 0
    /\ attempt = 0
    /\ slide_images = <<>>
    /\ variant_id = None
    /\ share_link = None
    /\ abort_cause = None
    /\ rejected = {}
    /\ processed = <<>>
    /\ neg_count = 0
    /\ won_at = 0
    /\ create_calls = 0
    /\ created_order = NoOrder
    /\ held_order = 0
    /\ removed_order = NoOrder
    /\ recreated_order = NoOrder
    /\ uploaded = <<>>
    /\ err_at2 = FALSE
    /\ backend_slides = {}
    /\ committed = {}
    /\ removed = {}
    /\ negotiated = <<>>
    /\ failed_requests = 0
    /\ up_pc = "start"
    /\ image_urls = <<>>
    /\ up_idx = 1
    /\ files_list = <<>>
    /\ up_gets = <<>>
    /\ up_posts = 0
    /\ up_ret = <<>>

WsNext ==
    \/ ws_on_message /\ UNCHANGED <<authVars, extractVars, runVars, loopVars, ghostVars, backendVars, uploadVars>>
    \/ ws_closed /\ UNCHANGED <<authVars, extractVars, runVars, loopVars, ghostVars, backendVars, uploadVars>>

SpecWs == InitWs /\ [][WsNext]_vars

\* process_images_for_slide alone: one call over any URL list
InitUpload ==
    /\ auth_mgr = [access_token |-> None, refresh_token |-> None, token_expiry |-> 0,
                   email |-> "e", password |-> "p"]
    /\ now = 0
    /\ auth_ret = NoAuthRet
    /\ ex_pc = "extracting"
    /\ extracted_result = NoResult
    /\ ex_first_pass = NoResult
    /\ ex_requests = 0
    /\ ws_pc = "running"
    /\ received_msgs = <<>>
    /\ ws_ret = NoWsRet
    /\ pc = "build"
    /\ scraped_content = <<>>
    /\ paragraphs = {}
    /\ section_keys = <<>>
    /\ current_key = None
    /\ current_slide_id = 0
    /\ order_counter = 0
    /\ attempt = 0
    /\ slide_images = <<>>
    /\ variant_id = None
    /\ share_link = None
    /\ abort_cause = None
    /\ rejected = {}
    /\ processed = <<>>
    /\ neg_count = 0
    /\ won_at = 0
    /\ create_calls = 0
    /\ created_order = NoOrder
    /\ held_order = 0
    /\ removed_order = NoOrder
    /\ recreated_order = NoOrder
    /\ uploaded = <<>>
    /\ err_at2 = FALSE
    /\ backend_slides = {}
    /\ committed = {}
    /\ removed = {}
    /\ negotiated = <<>>
    /\ failed_requests = 0
    /\ up_pc = "start"
    /\ image_urls \in ImageUrlLists
    /\ up_idx = 1
    /\ files_list = <<>>
    /\ up_gets = <<>>
    /\ up_posts = 0
    /\ up_ret = <<>>

UploadNext ==
    \/ StartUpload /\ UNCHANGED <<authVars, extractVars, wsVars, runVars, loopVars, ghostVars, backendVars>>
    \/ FetchImage /\ UNCHANGED <<authVars, extractVars, wsVars, runVars, loopVars, ghostVars, backendVars>>
    \/ UploadFiles /\ UNCHANGED <<authVars, extractVars, wsVars, runVars, loopVars, ghostVars, backendVars>>

SpecUpload == InitUpload /\ [][UploadNext]_vars

\* main after the extraction: build_presentation over any scraped content
Init ==
    /\ auth_mgr \in AuthManagerInit
    /\ now = 0
    /\ auth_ret = NoAuthRet
    /\ ex_pc = "returned"
    /\ extracted_result = NoResult
    /\ ex_first_pass = NoResult
    /\ ex_requests = 0
    /\ ws_pc = "running"
    /\ received_msgs = <<>>
    /\ ws_ret = NoWsRet
    /\ pc = "build"
    /\ scraped_content \in ScrapedMaps
    /\ paragraphs = {}
    /\ section_keys = <<>>
    /\ current_key = None
    /\ current_slide_id = 0
    /\ order_counter = 0
    /\ attempt = 0
    /\ slide_images = <<>>
    /\ variant_id = None
    /\ share_link = None
    /\ abort_cause = None
    /\ rejected = {}
    /\ processed = <<>>
    /\ neg_count = 0
    /\ won_at = 0
    /\ create_calls = 0
    /\ created_order = NoOrder
    /\ held_order = 0
    /\ removed_order = NoOrder
    /\ recreated_order = NoOrder
    /\ uploaded = <<>>
    /\ err_at2 = FALSE
    /\ backend_slides = {}
    /\ committed = {}
    /\ removed = {}
    /\ negotiated = <<>>
    /\ failed_requests = 0
    /\ up_pc = "start"
    /\ image_urls = <<>>
    /\ up_idx = 1
    /\ files_list = <<>>
    /\ up_gets = <<>>
    /\ up_posts = 0
    /\ up_ret = <<>>

Next ==
    \/ CreatePresentation /\ UNCHANGED <<auth_ret, extractVars, wsVars, backendVars, uploadVars>>
    \/ SelectSection /\ UNCHANGED <<auth_ret, extractVars, wsVars, backendVars, uploadVars>>
    \/ CreateSlide /\ UNCHANGED <<auth_ret, extractVars, wsVars, backendVars, uploadVars>>
    \/ Negotiate /\ UNCHANGED <<auth_ret, extractVars, wsVars, backendVars, uploadVars>>
    \/ PickVariant /\ UNCHANGED <<auth_ret, extractVars, wsVars, backendVars, uploadVars>>
    \/ RemoveSlide /\ UNCHANGED <<auth_ret, extractVars, wsVars, backendVars, uploadVars>>
    \/ AttemptsExhausted /\ UNCHANGED <<extractVars, wsVars, backendVars, uploadVars>>
    \/ GenerateShareLink /\ UNCHANGED <<auth_ret, extractVars, wsVars, backendVars, uploadVars>>

Spec == Init /\ [][Next]_vars

\* the same run, over an auth backend issuing sessions of the default
\* lifetime, together with the slides the backend holds
BackendNext ==
    \/ BackendCreatePresentation /\ UNCHANGED <<auth_ret, extractVars, wsVars, uploadVars>>
    \/ SelectSection /\ UNCHANGED <<auth_ret, extractVars, wsVars, backendVars, uploadVars>>
    \/ BackendCreateSlide /\ UNCHANGED <<auth_ret, extractVars, wsVars, uploadVars>>
    \/ BackendNegotiate /\ UNCHANGED <<auth_ret, extractVars, wsVars, uploadVars>>
    \/ BackendPickVariant /\ UNCHANGED <<auth_ret, extractVars, wsVars, uploadVars>>
    \/ BackendRemoveSlide /\ UNCHANGED <<auth_ret, extractVars, wsVars, uploadVars>>
    \/ AttemptsExhausted /\ UNCHANGED <<extractVars, wsVars, backendVars, uploadVars>>
    \/ GenerateShareLink /\ UNCHANGED <<auth_ret, extractVars, wsVars, backendVars, uploadVars>>

SpecBackend == Init /\ [][BackendNext]_vars

(***************************************************************************)
(* The claims                                                              *)
(***************************************************************************)

\* C1: every token get_valid_token returns has at least 300 seconds of
\* validity left at the moment it is returned.
C1_ReturnedTokenHasMargin ==
    auth_ret.kind = "return" => auth_ret.remaining >= ExpiryMargin

\* C5: extract_webpage_data returns a result only if it has the three keys,
\* a non-empty title and more than 2 paragraph entries; a result that fails
\* one of these is not returned and another request follows it; the value
\* returned is the first result that passes.
C5_ReturnsFirstPassingResult ==
    /\ ex_pc = "returned" =>
          /\ extracted_result # NoResult
          /\ TopKeys \subseteq extracted_result[1].keys
          /\ extracted_result[1].title # ""
          /\ Cardinality(extracted_result[1].paragraphs) >= 3
          /\ extracted_result = ex_first_pass
    /\ (/\ ex_pc # "raised"
        /\ extracted_result # NoResult
        /\ \/ ~(TopKeys \subseteq extracted_result[1].keys)
           \/ extracted_result[1].title = ""
           \/ Cardinality(extracted_result[1].paragraphs) <= 2)
          => ex_pc = "extracting" /\ ENABLED ExtractAttempt

\* a result with exactly 3 paragraph entries and other image keys was
\* accepted and returned
C5_Witness ==
    /\ ex_pc = "returned"
    /\ Cardinality(extracted_result[1].paragraphs) = 3
    /\ extracted_result[1].images # extracted_result[1].paragraphs

\* C6: with exactly one message the result is the image-error sentinel if
\* that message contains the rejection phrase and false otherwise; with two
\* or more messages it is the id field of the second message, whatever the
\* other messages are.
C6_ResultFromMessages ==
    ws_pc = "closed" =>
        /\ Len(received_msgs) = 1 =>
              ws_ret = [kind |-> "return",
                        value |-> IF received_msgs[1].phrase
                                  THEN "Image Error" ELSE "False"]
        /\ (Len(received_msgs) >= 2 /\ received_msgs[2].json) =>
              ws_ret = [kind |-> "return", value |-> received_msgs[2].id]

\* three messages were received whose first and third carry other ids than
\* the second, and the second one's id was returned
C6_Witness ==
    /\ ws_pc = "closed"
    /\ Len(received_msgs) = 3
    /\ received_msgs[1].id = "v1"
    /\ received_msgs[2].id = "v2"
    /\ received_msgs[3].phrase
    /\ ws_ret.value = "v2"

\* C7: for every number of inbound messages, zero included,
\* handle_slide_websocket returns (it never raises), and with fewer than 2
\* messages what it returns is a failure outcome.
C7_AlwaysReturnsAnOutcome ==
    ws_pc = "closed" =>
        /\ ws_ret.kind = "return"
        /\ Len(received_msgs) < 2 => ws_ret.value \in {"False", "Image Error"}

\* C2: the negotiations made for a section number at least 1 and at most 4,
\* and none is made for it after one returned a real variant id.
C2_AttemptsPerSection ==
    /\ neg_count <= 4
    /\ (pc \in {"for", "done"} /\ processed # <<>>) => neg_count >= 1
    /\ won_at # 0 => neg_count = won_at

\* a section was left after its fourth negotiation, which succeeded
C2_Witness ==
    /\ pc = "for"
    /\ neg_count = 4
    /\ won_at = 4

\* C3: a create-slide call that follows the removal of a slide uses the order
\* index the removed slide had, the implicit first slide (index 0) included.
C3_RemovedIndexReused ==
    recreated_order # NoOrder => created_order = recreated_order

\* a slide created at index 1 was removed and the next one created at 1
C3_Witness ==
    /\ recreated_order = <<1>>
    /\ created_order = <<1>>
    /\ create_calls >= 2
    /\ current_slide_id # 0

\* the order in which the sections of a mapping are to be processed
ExpectedOrder(seq) ==
    IF \E i \in 1..Len(seq) : seq[i] = "Introduction"
    THEN <<"Introduction">> \o SelectSeq(seq, LAMBDA h : h # "Introduction")
    ELSE seq

\* C4: the sections are processed once each, "Introduction" first when it
\* is present, the others in the order of the mapping.
C4_SectionOrder ==
    /\ Len(processed) <= Len(scraped_content)
    /\ processed = SubSeq(ExpectedOrder(scraped_content), 1, Len(processed))
    /\ pc = "done" => Len(processed) = Len(scraped_content)

\* a run over three sections whose mapping has "Introduction" last finished
C4_Witness ==
    /\ pc = "done"
    /\ Len(scraped_content) = 3
    /\ scraped_content[3] = "Introduction"

\* C8: whatever a negotiation does, delivering too few messages included,
\* the run is not aborted by it (IndexError is what a negotiation raises
\* when it has too few messages to decide on).
C8_NegotiationNeverAborts ==
    abort_cause # "IndexError"

\* C9: a non-2xx answer to a create-presentation, create-slide or share-link
\* request aborts the run, which then yields no share URL.
C9_RejectionAborts ==
    rejected \cap {"create-presentation", "create-slide", "share-link"} # {}
        => pc = "aborted" /\ share_link = None

\* C10 as stated: at most one create-slide call per section, so at most 3 in
\* a run over 3 sections.
C10_OneCreatePerSection ==
    Len(scraped_content) = 3 => create_calls <= 3

\* C10 as amended: at most 4 create-slide calls per section and at most 3
\* for the first one, so at most 4n - 1 once n sections were started (11 in
\* a run over 3 sections).
C10_CreatesPerSection ==
    /\ processed = <<>> => create_calls = 0
    /\ processed # <<>> => create_calls <= 4 * Len(processed) - 1
    /\ Len(scraped_content) = 3 => create_calls <= 11

\* a run over 3 sections made 11 create-slide calls
C10_Witness ==
    /\ Len(scraped_content) = 3
    /\ create_calls = 11

\* the positions (from 1) of the URLs of a list that satisfy a test
Positions(urls, Test(_)) == {i \in 1..Len(urls) : Test(urls[i])}
Entries(seq) == {seq[i] : i \in 1..Len(seq)}

\* C11 as stated: no network call and an empty list for an empty URL list;
\* otherwise exactly the URLs that start like a web address are fetched,
\* exactly the fetches that succeed with a declared subtype among jpeg, png,
\* gif, webp are kept, and the upload endpoint is called once when an image
\* is kept and not at all when none is.
C11_KeepsDeclaredImageTypes ==
    up_pc = "returned" =>
        /\ image_urls = <<>> => up_gets = <<>> /\ up_posts = 0 /\ up_ret = <<>>
        /\ Entries(up_gets) = Positions(image_urls, LAMBDA u : u.http)
        /\ {f.idx + 1 : f \in Entries(files_list)} =
              Positions(image_urls,
                        LAMBDA u : /\ u.http
                                   /\ u.status = 200
                                   /\ u.ctype # <<>>
                                   /\ lower(u.ctype[Len(u.ctype)])
                                        \in {"jpeg", "png", "gif", "webp"})
        /\ up_posts = IF files_list = <<>> THEN 0 ELSE 1

\* C11 as amended: as stated, except that a fetch that succeeds without a
\* Content-Type header is kept as a JPEG.
C11_KeepsImageTypes ==
    up_pc = "returned" =>
        /\ image_urls = <<>> => up_gets = <<>> /\ up_posts = 0 /\ up_ret = <<>>
        /\ Entries(up_gets) = Positions(image_urls, LAMBDA u : u.http)
        /\ Len(up_gets) = Cardinality(Entries(up_gets))
        /\ {f.idx + 1 : f \in Entries(files_list)} =
              Positions(image_urls,
                        LAMBDA u : /\ u.http
                                   /\ u.status = 200
                                   /\ \/ u.ctype = <<>>
                                      \/ lower(u.ctype[Len(u.ctype)])
                                           \in {"jpeg", "png", "gif", "webp"})
        /\ up_posts = IF files_list = <<>> THEN 0 ELSE 1
        /\ files_list = <<>> => up_ret = <<>>

\* a PNG and an SVG were fetched, the PNG alone was kept and uploaded in one
\* request
C11_Witness ==
    /\ up_pc = "returned"
    /\ Len(image_urls) = 2
    /\ image_urls[1].ctype = <<"image", "png">>
    /\ image_urls[2].ctype = <<"image", "svg+xml">>
    /\ Len(files_list) = 1
    /\ up_posts = 1
    /\ up_ret = <<"h1">>

\* C12: every result that extract_webpage_data returns has the same keys in
\* its paragraphs mapping and in its images mapping.
C12_AcceptedKeySetsMatch ==
    ex_pc = "returned" =>
        extracted_result[1].images = extracted_result[1].paragraphs

\* the answers of auth_ret to the requests of one kind
AnswersTo(ret, request) ==
    {ret.answers[i] : i \in {j \in 1..Len(ret.sent) : ret.sent[j] = request}}

\* C13: get_valid_token raises the missing-credential error exactly when the
\* cached token was not usable, no refresh succeeded and the email or the
\* password is absent; it has then sent no password request.
C13_MissingCredentialExactly ==
    auth_ret.kind # "none" =>
        LET missing == auth_ret.kind = "raise" /\ auth_ret.value = "MissingCredential"
            refreshed == \E a \in AnswersTo(auth_ret, "refresh") : a.status = 200
        IN
        /\ missing <=> /\ ~auth_ret.cached
                       /\ ~refreshed
                       /\ auth_mgr.email = None \/ auth_mgr.password = None
        /\ missing => "password" \notin Range(auth_ret.sent)

\* the email is configured, the password is not, and the call failed for it
C13_Witness ==
    /\ auth_ret.kind = "raise"
    /\ auth_ret.value = "MissingCredential"
    /\ auth_mgr.email # None
    /\ auth_mgr.password = None
    /\ auth_ret.sent = <<>>

\* C14: after a call whose refresh attempt failed, password authentication
\* was attempted by the same call, and the refresh credential held before is
\* gone: the object holds none, or the one the password answer brought.
C14_FailedRefreshClearsCredential ==
    (\E a \in AnswersTo(auth_ret, "refresh") : a.status # 200) =>
        /\ auth_ret.sent = <<"refresh", "password">>
        /\ auth_ret.kind = "raise" => auth_mgr.refresh_token = None

\* C15: the access token and the expiry change only in a call that ends with
\* a 200 answer, and are then that answer's token and the time of the answer
\* plus its expires_in (3600 without one); a call served from the cache sends
\* nothing and changes nothing, and a call that fails changes neither.
C15_SessionChangesOnSuccessOnly ==
    [][LET changed == \/ auth_mgr'.access_token # auth_mgr.access_token
                      \/ auth_mgr'.token_expiry # auth_mgr.token_expiry
           called == auth_ret' # auth_ret
           n == Len(auth_ret'.answers)
           succeeded == n > 0 /\ auth_ret'.answers[n].status = 200
       IN
       /\ changed => called /\ succeeded
       /\ called /\ succeeded =>
             /\ auth_ret'.kind = "return"
             /\ auth_mgr'.access_token = auth_ret'.answers[n].access_token
             /\ auth_mgr'.token_expiry =
                   now' + (IF auth_ret'.answers[n].expires_in = NoTTL
                           THEN 3600 ELSE auth_ret'.answers[n].expires_in)
       /\ called /\ auth_ret'.cached => auth_ret'.sent = <<>> /\ ~changed
       /\ called /\ auth_ret'.kind = "raise" => ~changed
      ]_vars

\* a refresh answered later than time 0 with a token and a TTL of 200 s
C15_Witness ==
    /\ auth_ret.kind = "return"
    /\ auth_ret.sent = <<"refresh">>
    /\ auth_ret.answers[1].expires_in = 200
    /\ now > 0
    /\ auth_mgr.token_expiry = now + 200
    /\ auth_mgr.access_token = auth_ret.answers[1].access_token

\* the content contract: the three keys present, a non-empty title and at
\* least 3 paragraph entries
SatisfiesContract(result) ==
    /\ result # NoResult
    /\ TopKeys \subseteq result[1].keys
    /\ result[1].title # ""
    /\ Cardinality(result[1].paragraphs) >= 3

\* C20: once a result satisfying the contract has arrived, the function
\* eventually returns and sends no request in between; it returns only after
\* such a result; and as long as none has arrived and app.extract has not
\* raised, whatever the number of requests made, the next request is sent.
C20_RetriesUntilSatisfied ==
    /\ SatisfiesContract(extracted_result) ~> ex_pc = "returned"
    /\ [][SatisfiesContract(extracted_result) =>
            /\ ex_requests' = ex_requests
            /\ extracted_result' = extracted_result]_vars
    /\ [](ex_pc = "returned" => SatisfiesContract(extracted_result))
    /\ [](ex_pc = "extracting" /\ ~SatisfiesContract(extracted_result) =>
            ~ENABLED ExtractReturn /\ ENABLED ExtractAttempt)

\* the function returned after at least two rejected results
C20_Witness ==
    /\ ex_pc = "returned"
    /\ ex_requests = MaxCountedRequests
    /\ SatisfiesContract(extracted_result)

\* C16 as stated: while a section is negotiated the image list is the
\* uploaded list on attempts 0, 1 and 2, and on attempt 3 it is empty exactly
\* when the negotiation at attempt 2 returned the image error.
C16_EmptyIffImageErrorAtTwo ==
    pc \in {"while", "variant"} =>
        /\ attempt <= 2 => slide_images = uploaded
        /\ attempt = 3 => (slide_images = <<>> <=> err_at2)

\* C16 as amended: on attempt 3 the image list is empty if the negotiation
\* at attempt 2 returned the image error and the uploaded list otherwise
\* (which may itself be empty); an image error at another attempt leaves
\* the list alone, and every pass that removes the slide, the clearing one
\* included, gives the order index back and counts the attempt.
C16_ImagesDroppedAfterAttemptTwo ==
    /\ [](pc \in {"while", "variant"} =>
            /\ attempt <= 2 => slide_images = uploaded
            /\ attempt = 3 => slide_images = IF err_at2 THEN <<>> ELSE uploaded)
    /\ [][pc = "variant" /\ pc' = "while" =>
            /\ variant_id = "Image Error" /\ attempt # 2 =>
                  slide_images' = slide_images
            /\ order_counter' = order_counter - 1
            /\ attempt' = attempt + 1
            /\ current_slide_id' = 0
            /\ removed_order' = <<held_order>>]_vars

\* the fourth attempt of a section with an uploaded image, after the image
\* error at attempt 2: the list is empty, the slide gone, the index given back
C16_Witness ==
    /\ pc = "while"
    /\ attempt = 3
    /\ uploaded = <<"h1">>
    /\ err_at2
    /\ slide_images = <<>>
    /\ current_slide_id = 0
    /\ removed_order = <<held_order>>

\* assemble_slides is running, and it has finished
Assembling == pc \in {"for", "while", "variant"}
Assembled == pc = "done" \/ (pc = "for" /\ section_keys = <<>>)
CommittedIds == {c.id : c \in committed}

\* C17: while assemble_slides runs, the order indices of the slides on the
\* backend are pairwise distinct and form the range 0..k-1.
C17_BackendOrdersDense ==
    Assembling =>
        LET orders == {sl.order : sl \in backend_slides} IN
        /\ Cardinality(orders) = Cardinality(backend_slides)
        /\ orders = 0..(Cardinality(backend_slides) - 1)

\* C18: at most one slide on the backend is not committed, the one held; no
\* slide is negotiated twice; no slide is both committed and removed; and
\* once assemble_slides has finished no slide is held and every slide left
\* on the backend is a committed one.
C18_SlideCommittedOrDeleted ==
    /\ Assembling \/ Assembled =>
          /\ \A sl \in backend_slides :
                sl.id \notin CommittedIds => sl.id = current_slide_id
          /\ \A i, j \in 1..Len(negotiated) : negotiated[i] = negotiated[j] => i = j
          /\ CommittedIds \cap removed = {}
    /\ Assembled =>
          /\ current_slide_id = 0
          /\ \A sl \in backend_slides : sl.id \in CommittedIds

\* C19: every slide the run treats as committed is on the backend with
\* exactly one variant applied, the one its negotiation returned.
C19_CommittedHasItsVariant ==
    \A c \in committed :
        \E sl \in backend_slides : sl.id = c.id /\ sl.variants = <<c.variant>>

====
